---- MODULE Spec2Model ----
(***************************************************************************)
(* A model of ksa_compliance/jinja.py: the ZATCA phase 1 QR payload (TLV   *)
(* encoder), the item wise tax details, the seller / buyer "other id"      *)
(* resolution and the phase 2 print format details.                        *)
(*                                                                         *)
(* Python values are modelled as follows.                                  *)
(*   str    a sequence of Unicode code points                              *)
(*   bytes  a sequence of numbers in 0..255                                *)
(*   a value that may be None: a record with a field kind, which is        *)
(*          "none", "str", "int", "float", "list", "dict" or "exception"   *)
(* The frappe document store is the variable db; every frappe call a       *)
(* function makes is appended to the variable queries.                     *)
(***************************************************************************)
EXTENDS Integers, Sequences, FiniteSets, TLC

VARIABLES
    fn,              \* the function of jinja.py being called
    db,              \* the frappe document store the call reads
    args,            \* the arguments of the call
    pc,              \* where the call is: "start", "loop", "render", "done", "raised"
    ret,             \* what the call returned, or the exception it raised
    queries,         \* the frappe calls made so far, in order
    values,          \* _generate_decoded_string: its parameter values
    tag,             \* _generate_decoded_string: the loop variable tag
    encoded_text,    \* _generate_decoded_string: the local encoded_text
    decoded_string   \* get_zatca_phase_1_qr_for_invoice: the local decoded_string

vars == <<fn, db, args, pc, ret, queries, values, tag, encoded_text, decoded_string>>

\* Python values that may be None are records tagged by kind.
None == [kind |-> "none"]
StrV(s) == [kind |-> "str", s |-> s]
IntV(n) == [kind |-> "int", n |-> n]
FloatV(t) == [kind |-> "float", t |-> t]
ListV(items) == [kind |-> "list", items |-> items]
ExcV(e) == [kind |-> "exception", exc |-> e]

Ok(v) == [ok |-> TRUE, val |-> v]
Raise(e) == [ok |-> FALSE, exc |-> e]

(***************************************************************************)
(* Python strings, numbers and bytes                                       *)
(***************************************************************************)

\* The code points of a non-negative integer's decimal digits.
RECURSIVE Digits(_)
Digits(n) == IF n < 10 THEN <<48 + n>> ELSE Digits(n \div 10) \o <<48 + (n % 10)>>

\* str(n) of a Python int.
IntStr(n) == IF n < 0 THEN <<45>> \o Digits(0 - n) ELSE Digits(n)

\* str(x) of the Python float x = t / 10: repr gives the shortest decimal, "115.0", "-0.5".
FloatStr(t) ==
    LET m == IF t < 0 THEN 0 - t ELSE t
    IN  (IF t < 0 THEN <<45>> ELSE <<>>) \o Digits(m \div 10) \o <<46>> \o Digits(m % 10)

\* str(v)
PyStr(v) ==
    CASE v.kind = "str" -> v.s
      [] v.kind = "int" -> IntStr(v.n)
      [] v.kind = "float" -> FloatStr(v.t)

\* The UTF-8 bytes of one code point (surrogates do not occur in stored text).
Utf8Char(c) ==
    IF c < 128 THEN <<c>>
    ELSE IF c < 2048 THEN <<192 + (c \div 64), 128 + (c % 64)>>
    ELSE IF c < 65536 THEN <<224 + (c \div 4096), 128 + ((c \div 64) % 64), 128 + (c % 64)>>
    ELSE <<240 + (c \div 262144), 128 + ((c \div 4096) % 64),
           128 + ((c \div 64) % 64), 128 + (c % 64)>>

\* s.encode('utf-8')
RECURSIVE Utf8Encode(_)
Utf8Encode(s) ==
    IF Len(s) = 0 THEN <<>>
    ELSE IF Len(s) = 1 THEN Utf8Char(s[1])
    ELSE LET h == Len(s) \div 2
         IN  Utf8Encode(SubSeq(s, 1, h)) \o Utf8Encode(SubSeq(s, h + 1, Len(s)))

\* The largest value of a byte: bytes([n]) raises ValueError unless 0 <= n <= ByteMax.
ByteMax == 255

\* bytes(ns) of a list of ints
PyBytes(ns) ==
    IF \A i \in 1..Len(ns) : ns[i] \in 0..ByteMax
    THEN Ok(ns)
    ELSE Raise("ValueError")

\* The code point of a lowercase hex digit, and back.
HexChar(d) == IF d < 10 THEN 48 + d ELSE 87 + d
HexVal(c) == IF c < 58 THEN c - 48 ELSE c - 87

\* b.hex()
Hex(b) ==
    [i \in 1..(2 * Len(b)) |->
        IF i % 2 = 1 THEN HexChar(b[(i + 1) \div 2] \div 16) ELSE HexChar(b[i \div 2] % 16)]

\* bytes.fromhex(h), for a string of hex digit pairs
FromHex(h) == [i \in 1..(Len(h) \div 2) |-> 16 * HexVal(h[2 * i - 1]) + HexVal(h[2 * i])]

\* The code point of the base64 digit of a sextet.
B64Char(x) ==
    IF x < 26 THEN 65 + x
    ELSE IF x < 52 THEN 71 + x
    ELSE IF x < 62 THEN x - 4
    ELSE IF x = 62 THEN 43 ELSE 47

\* b64encode(b).decode(): every 3 bytes give 4 digits, the last group padded with "=".
B64Encode(b) ==
    LET n == Len(b)
        At(k) == IF k <= n THEN b[k] ELSE 0
        Group(g) == 65536 * At(3 * g + 1) + 256 * At(3 * g + 2) + At(3 * g + 3)
        Sextet(g, k) ==
            CASE k = 0 -> Group(g) \div 262144
              [] k = 1 -> (Group(g) \div 4096) % 64
              [] k = 2 -> (Group(g) \div 64) % 64
              [] k = 3 -> Group(g) % 64
    IN  [i \in 1..(4 * ((n + 2) \div 3)) |->
            LET g == (i - 1) \div 4
                k == (i - 1) % 4
            IN  IF k >= 2 /\ 3 * g + k > n THEN 61 ELSE B64Char(Sextet(g, k))]

(***************************************************************************)
(* The TLV encoder                                                         *)
(***************************************************************************)

\* A plausible slip: the length byte counts characters, not UTF-8 bytes.
_encode_input_chars(input, tagl) ==
    LET encoded_tag == PyBytes(tagl)
        s == IF input.kind = "str" THEN input.s ELSE PyStr(input)
        encoded_length == PyBytes(<<Len(s)>>)
    IN  IF ~encoded_tag.ok THEN encoded_tag
        ELSE IF ~encoded_length.ok THEN encoded_length
        ELSE Ok(Hex(encoded_tag.val) \o Hex(encoded_length.val) \o Hex(Utf8Encode(s)))

\* A plausible slip: the length wraps into one byte instead of raising.
_encode_input_wraps(input, tagl) ==
    LET encoded_tag == PyBytes(tagl)
        s == IF input.kind = "str" THEN input.s ELSE PyStr(input)
        encoded_length == PyBytes(<<Len(Utf8Encode(s)) % (ByteMax + 1)>>)
    IN  IF ~encoded_tag.ok THEN encoded_tag
        ELSE IF ~encoded_length.ok THEN encoded_length
        ELSE Ok(Hex(encoded_tag.val) \o Hex(encoded_length.val) \o Hex(Utf8Encode(s)))

\* _encode_input(input, tag): tag hex, length hex, value hex; tagl is the list [tag].
\* bytes([n]) raises ValueError when n is not in 0..255.
_encode_input(input, tagl) ==
    LET encoded_tag == PyBytes(tagl)
        s == IF input.kind = "str" THEN input.s ELSE PyStr(input)
        encoded_length == PyBytes(<<Len(Utf8Encode(s))>>)
        encoded_value == Hex(Utf8Encode(s))
    IN  IF ~encoded_tag.ok THEN encoded_tag
        ELSE IF ~encoded_length.ok THEN encoded_length
        ELSE Ok(Hex(encoded_tag.val) \o Hex(encoded_length.val) \o encoded_value)

(***************************************************************************)
(* _format_date: local date and time of day to a UTC time stamp            *)
(***************************************************************************)

IsLeap(y) == (y % 4 = 0 /\ y % 100 # 0) \/ y % 400 = 0

DaysInMonth(y, m) ==
    IF m = 2 THEN (IF IsLeap(y) THEN 29 ELSE 28)
    ELSE IF m \in {4, 6, 9, 11} THEN 30 ELSE 31

PrevDay(d) ==
    IF d.day > 1 THEN [d EXCEPT !.day = d.day - 1]
    ELSE IF d.month > 1
         THEN [year |-> d.year, month |-> d.month - 1, day |-> DaysInMonth(d.year, d.month - 1)]
         ELSE [year |-> d.year - 1, month |-> 12, day |-> 31]

NextDay(d) ==
    IF d.day < DaysInMonth(d.year, d.month) THEN [d EXCEPT !.day = d.day + 1]
    ELSE IF d.month < 12
         THEN [year |-> d.year, month |-> d.month + 1, day |-> 1]
         ELSE [year |-> d.year + 1, month |-> 1, day |-> 1]

\* The decimal digits of n, zero-padded on the left to width w (strftime's %Y, %m, ...).
Pad(n, w) == LET ds == Digits(n) IN [i \in 1..(w - Len(ds)) |-> 48] \o ds

\* _format_date(date, time): combine, astimezone(utc) from the system's local zone
\* (utcoffset, in whole hours), strftime('%Y-%m-%dT%H:%M:%SZ').
_format_date(date, time, utcoffset) ==
    LET h == time.hour - utcoffset
        utc_date == IF h < 0 THEN PrevDay(date) ELSE IF h >= 24 THEN NextDay(date) ELSE date
        utc_hour == IF h < 0 THEN h + 24 ELSE IF h >= 24 THEN h - 24 ELSE h
    IN  Pad(utc_date.year, 4) \o <<45>> \o Pad(utc_date.month, 2) \o <<45>> \o Pad(utc_date.day, 2)
            \o <<84>> \o Pad(utc_hour, 2) \o <<58>> \o Pad(time.minute, 2) \o <<58>>
            \o Pad(time.second, 2) \o <<90>>

(***************************************************************************)
(* _get_qr_inputs                                                          *)
(***************************************************************************)

\* One frappe call, as logged in queries.
Q(op, doctype, key) == [op |-> op, doctype |-> doctype, key |-> key]

\* frappe.db.exists(doctype, name) on a table keyed by name.
Exists(table, name) == name \in DOMAIN table

\* The names of the documents of a table whose company is c.
ByCompany(table, c) == {n \in DOMAIN table : table[n].company = c}

\* A plausible slip: the settings' status is not looked at.
IsDisabled_never(phase_1_settings) == FALSE

\* phase_1_settings.status == 'Disabled'
IsDisabled(phase_1_settings) == phase_1_settings.status = "Disabled"

\* _get_qr_inputs(invoice_name): the five values, or None; q is the frappe calls made.
_get_qr_inputs(invoice_name) ==
    LET isPos == Exists(db.pos_invoice, invoice_name)
        isSales == Exists(db.sales_invoice, invoice_name)
        q1 == <<Q("exists", "POS Invoice", invoice_name)>>
        q2 == IF isPos THEN q1 ELSE q1 \o <<Q("exists", "Sales Invoice", invoice_name)>>
    IN  IF ~isPos /\ ~isSales THEN [ret |-> None, q |-> q2]
        ELSE
        LET invoice_doc == IF isPos THEN db.pos_invoice[invoice_name]
                           ELSE db.sales_invoice[invoice_name]
            q3 == q2 \o <<Q("get_doc", IF isPos THEN "POS Invoice" ELSE "Sales Invoice", invoice_name)>>
            seller_name == invoice_doc.company
            found == ByCompany(db.phase_1_settings, seller_name)
            q4 == q3 \o <<Q("get_value", "ZATCA Phase 1 Business Settings", seller_name)>>
        IN  IF found = {} THEN [ret |-> None, q |-> q4]
            ELSE
            LET phase_1_name == CHOOSE n \in found : TRUE
                phase_1_settings == db.phase_1_settings[phase_1_name]
                q5 == q4 \o <<Q("get_doc", "ZATCA Phase 1 Business Settings", phase_1_name)>>
            IN  IF IsDisabled(phase_1_settings) THEN [ret |-> None, q |-> q5]
                ELSE [ret |-> ListV(<<StrV(seller_name), StrV(phase_1_settings.vat_registration_number),
                                StrV(_format_date(invoice_doc.posting_date, invoice_doc.posting_time,
                                                  db.utcoffset)),
                                invoice_doc.grand_total, invoice_doc.total_taxes_and_charges>>),
                      q |-> q5]

(***************************************************************************)
(* get_zatca_phase_1_qr_for_invoice, _generate_decoded_string,             *)
(* _generate_qrcode: the steps of a call                                   *)
(***************************************************************************)

\* The image string _generate_qrcode returns for data: the base64 of the PNG that
\* pyqrcode draws of it (the drawing itself is the library's).
QrImage(data) == [kind |-> "str", png_b64_of |-> data]

\* get_zatca_phase_1_qr_for_invoice up to the call of _generate_decoded_string:
\* return None when there are no inputs, else enter the loop over the values.
GetQrInputs ==
    /\ fn = "get_zatca_phase_1_qr_for_invoice"
    /\ pc = "start"
    /\ LET r == _get_qr_inputs(args.invoice_name)
       IN  /\ queries' = queries \o r.q
           /\ IF r.ret = None
              THEN /\ pc' = "done"
                   /\ ret' = None
                   /\ UNCHANGED <<values, tag, encoded_text>>
              ELSE /\ pc' = "loop"
                   /\ values' = r.ret.items
                   /\ encoded_text' = <<>>
                   /\ tag' = 1
                   /\ UNCHANGED ret
    /\ UNCHANGED <<fn, db, args, decoded_string>>

\* A direct call of _generate_decoded_string(values) enters its loop.
GenerateDecodedStringStart ==
    /\ fn = "_generate_decoded_string"
    /\ pc = "start"
    /\ pc' = "loop"
    /\ values' = args.values
    /\ encoded_text' = <<>>
    /\ tag' = 1
    /\ UNCHANGED <<fn, db, args, ret, queries, decoded_string>>

\* One pass of the loop of _generate_decoded_string: encoded_text += _encode_input(value, [tag]);
\* an exception of _encode_input leaves every caller.
EncodeNext ==
    /\ pc = "loop"
    /\ tag <= Len(values)
    /\ LET r == _encode_input(values[tag], <<tag>>)
       IN  IF r.ok
           THEN /\ encoded_text' = encoded_text \o r.val
                /\ tag' = tag + 1
                /\ UNCHANGED <<pc, ret>>
           ELSE /\ pc' = "raised"
                /\ ret' = ExcV(r.exc)
                /\ UNCHANGED <<encoded_text, tag>>
    /\ UNCHANGED <<fn, db, args, queries, values, decoded_string>>

\* The loop is over: b64encode(bytes.fromhex(encoded_text)).decode() is returned.
ReturnDecodedString ==
    /\ pc = "loop"
    /\ tag > Len(values)
    /\ decoded_string' = B64Encode(FromHex(encoded_text))
    /\ IF fn = "_generate_decoded_string"
       THEN pc' = "done" /\ ret' = StrV(decoded_string')
       ELSE pc' = "render" /\ UNCHANGED ret
    /\ UNCHANGED <<fn, db, args, queries, values, tag, encoded_text>>

\* _generate_qrcode(data): None for no data; else the image string. pyqrcode.create
\* raises ValueError for data that fits no QR version.
GenerateQrcode ==
    /\ \/ pc = "render"
       \/ pc = "start" /\ fn = "_generate_qrcode"
    /\ LET data == IF fn = "_generate_qrcode" THEN args.data ELSE decoded_string
       IN  \/ /\ data = <<>>
              /\ pc' = "done"
              /\ ret' = None
           \/ /\ data # <<>>
              /\ pc' = "done"
              /\ ret' = QrImage(data)
           \/ /\ data # <<>>
              /\ pc' = "raised"
              /\ ret' = ExcV("ValueError")
    /\ UNCHANGED <<fn, db, args, queries, values, tag, encoded_text, decoded_string>>

(***************************************************************************)
(* The calls checked for the QR payload                                    *)
(***************************************************************************)

\* The longest list of values a direct call of _generate_decoded_string is given.
MaxValues == 2

Rep(c, n) == [i \in 1..n |-> c]

TxtCo == <<67, 111>>                             \* "Co"
TxtArabic == <<1588, 1585>>                      \* two letters of two bytes each
TxtVat == <<51, 48, 48>>                         \* "300"
TxtMax == Rep(65, ByteMax)                       \* ByteMax bytes
TxtOver == Rep(65, ByteMax + 1)                  \* ByteMax + 1 bytes
TxtArabicMax == Rep(1587, ByteMax \div 2) \o <<65>>     \* 127 letters of two bytes and "A"
TxtArabicOver == Rep(1587, (ByteMax + 1) \div 2)        \* 128 letters of two bytes

GenValues ==
    {StrV(<<>>), StrV(TxtCo), StrV(TxtArabic), StrV(<<8364>>), StrV(<<128512>>),
     IntV(0), IntV(-7), IntV(115), FloatV(1150), FloatV(-5),
     StrV(TxtMax), StrV(TxtOver), StrV(TxtArabicMax), StrV(TxtArabicOver)}

InvoiceName == "INV-1"

Companies == {TxtCo, TxtArabic, TxtArabicMax, TxtOver}

DateTimes ==
    {[date |-> [year |-> 2021, month |-> 12, day |-> 13], time |-> [hour |-> 13, minute |-> 39, second |-> 15]],
     [date |-> [year |-> 2024, month |-> 1, day |-> 1], time |-> [hour |-> 1, minute |-> 0, second |-> 0]],
     [date |-> [year |-> 2024, month |-> 2, day |-> 28], time |-> [hour |-> 23, minute |-> 30, second |-> 59]]}

Totals == {[grand |-> FloatV(1150), tax |-> FloatV(150)], [grand |-> IntV(100), tax |-> IntV(0)]}

InvoiceDocs ==
    {[company |-> c, posting_date |-> dt.date, posting_time |-> dt.time,
      grand_total |-> t.grand, total_taxes_and_charges |-> t.tax] :
        c \in Companies, dt \in DateTimes, t \in Totals}

\* A table with no document, and with one document.
NoDocs == <<>>
OneDoc(name, doc) == name :> doc

InvoiceTables == {NoDocs} \cup {OneDoc(InvoiceName, d) : d \in InvoiceDocs}

Phase1Tables ==
    {NoDocs} \cup
    {OneDoc("P1", [company |-> c, status |-> st, vat_registration_number |-> v]) :
        c \in Companies, st \in {"Active", "Disabled"}, v \in {TxtVat, TxtArabicOver}}

QrDbs ==
    {[pos_invoice |-> p, sales_invoice |-> si, phase_1_settings |-> p1, utcoffset |-> off] :
        p \in InvoiceTables, si \in InvoiceTables, p1 \in Phase1Tables, off \in {3, -5}}

NoDb == [pos_invoice |-> NoDocs, sales_invoice |-> NoDocs, phase_1_settings |-> NoDocs, utcoffset |-> 0]

InitQR ==
    /\ \/ /\ fn = "get_zatca_phase_1_qr_for_invoice"
          /\ args = [invoice_name |-> InvoiceName]
          /\ db \in QrDbs
       \/ /\ fn = "_generate_decoded_string"
          /\ \E n \in 0..MaxValues : \E vs \in [1..n -> GenValues] : args = [values |-> vs]
          /\ db = NoDb
       \/ /\ fn = "_generate_qrcode"
          /\ args \in {[data |-> <<>>], [data |-> <<65, 81, 61, 61>>]}
          /\ db = NoDb
    /\ pc = "start"
    /\ ret = None
    /\ queries = <<>>
    /\ values = <<>>
    /\ tag = 0
    /\ encoded_text = <<>>
    /\ decoded_string = <<>>

NextQR ==
    \/ GetQrInputs
    \/ GenerateDecodedStringStart
    \/ EncodeNext
    \/ ReturnDecodedString
    \/ GenerateQrcode

SpecQR == InitQR /\ [][NextQR]_vars

(***************************************************************************)
(* Properties of the QR payload                                            *)
(***************************************************************************)

B64Val(c) ==
    IF c = 43 THEN 62
    ELSE IF c = 47 THEN 63
    ELSE IF c < 58 THEN c + 4
    ELSE IF c < 91 THEN c - 65 ELSE c - 71

\* The bytes a base64 string stands for.
B64Decode(s) ==
    LET n == Len(s)
        pads == IF n = 0 THEN 0
                ELSE IF s[n] # 61 THEN 0
                ELSE IF s[n - 1] # 61 THEN 1 ELSE 2
        D(i) == IF s[i] = 61 THEN 0 ELSE B64Val(s[i])
        Group(g) == 262144 * D(4 * g + 1) + 4096 * D(4 * g + 2) + 64 * D(4 * g + 3) + D(4 * g + 4)
    IN  [j \in 1..(3 * (n \div 4) - pads) |->
            LET g == (j - 1) \div 3
                k == (j - 1) % 3
            IN  CASE k = 0 -> Group(g) \div 65536
                  [] k = 1 -> (Group(g) \div 256) % 256
                  [] k = 2 -> Group(g) % 256]

\* The UTF-8 length of a value's string form.
ByteLen(v) == Len(Utf8Encode(PyStr(v)))

\* One record per value: tag i, length, value bytes, for the values from..Len(vs).
RECURSIVE TLVFrom(_, _)
TLVFrom(vs, from) ==
    IF from > Len(vs) THEN <<>>
    ELSE <<from, ByteLen(vs[from])>> \o Utf8Encode(PyStr(vs[from])) \o TLVFrom(vs, from + 1)

TLVRecords(vs) == TLVFrom(vs, 1)

InGenerate == fn \in {"_generate_decoded_string", "get_zatca_phase_1_qr_for_invoice"}

\* The loop of _generate_decoded_string was entered / has ended with every value encoded.
LoopEntered == InGenerate /\ tag >= 1
Generated == LoopEntered /\ tag > Len(values) /\ pc # "loop"
RaisedInEncode == LoopEntered /\ pc = "raised" /\ tag <= Len(values)

\* C1: base64-decoding the string _generate_decoded_string returns gives, in input
\* order, one record per value: tag i (1, 2, 3, ...), one length byte equal to the UTF-8
\* length of the value's string form, and those UTF-8 bytes. The same holds of the
\* records built so far at every pass of the loop.
C1_PayloadIsTLVRecords ==
    /\ LoopEntered =>
          FromHex(encoded_text) = TLVRecords(SubSeq(values, 1, tag - 1))
    /\ Generated =>
          /\ B64Decode(decoded_string) = TLVRecords(values)
          /\ fn = "_generate_decoded_string" => pc = "done" /\ ret = StrV(decoded_string)

C1_Witness ==
    /\ fn = "_generate_decoded_string"
    /\ pc = "done"
    /\ values = <<StrV(TxtArabic), FloatV(1150)>>
    /\ B64Decode(ret.s) = <<1, 4, 216, 180, 216, 177, 2, 5, 49, 49, 53, 46, 48>>

\* C2: a value of exactly 255 bytes is encoded (with length byte 255); a value of 256
\* bytes or more makes _encode_input raise ValueError, so that neither
\* _generate_decoded_string nor get_zatca_phase_1_qr_for_invoice returns any payload;
\* nothing is ever encoded with a wrapped or truncated length.
C2_LengthLimit ==
    /\ LoopEntered =>
          /\ \A i \in 1..(tag - 1) : ByteLen(values[i]) <= ByteMax
          /\ FromHex(encoded_text) = TLVRecords(SubSeq(values, 1, tag - 1))
    /\ RaisedInEncode =>
          /\ ByteLen(values[tag]) > ByteMax
          /\ ret = ExcV("ValueError")
          /\ decoded_string = <<>>
    /\ (LoopEntered /\ pc \in {"done", "raised"} /\ \E i \in 1..Len(values) : ByteLen(values[i]) > ByteMax) =>
          /\ RaisedInEncode
          /\ ret.kind = "exception"

C2_Witness ==
    /\ RaisedInEncode
    /\ tag = 2
    /\ ByteLen(values[1]) = ByteMax
    /\ ByteLen(values[2]) = ByteMax + 1
    /\ SubSeq(encoded_text, 1, 4) = <<48, 49, 102, 102>>
    /\ Len(encoded_text) = 2 * (2 + ByteMax)

\* What get_zatca_phase_1_qr_for_invoice is to find in the document store.
InvoiceFound == Exists(db.pos_invoice, InvoiceName) \/ Exists(db.sales_invoice, InvoiceName)
TheInvoice ==
    IF Exists(db.pos_invoice, InvoiceName) THEN db.pos_invoice[InvoiceName]
    ELSE db.sales_invoice[InvoiceName]
SettingsOfCompany == {n \in DOMAIN db.phase_1_settings : db.phase_1_settings[n].company = TheInvoice.company}
TheSettings == db.phase_1_settings[CHOOSE n \in SettingsOfCompany : TRUE]
NoQr ==
    \/ ~InvoiceFound
    \/ SettingsOfCompany = {}
    \/ TheSettings.status = "Disabled"
FiveValues ==
    <<StrV(TheInvoice.company), StrV(TheSettings.vat_registration_number),
      StrV(_format_date(TheInvoice.posting_date, TheInvoice.posting_time, db.utcoffset)),
      TheInvoice.grand_total, TheInvoice.total_taxes_and_charges>>

InvoiceDoctypes == {"POS Invoice", "Sales Invoice"}

\* POS Invoice is looked up before Sales Invoice (which is looked up only when there is
\* no such POS Invoice), and the settings only after an invoice document was read.
LookupOrder ==
    /\ queries # <<>> => queries[1] = Q("exists", "POS Invoice", InvoiceName)
    /\ \A i \in 1..Len(queries) :
          /\ queries[i] = Q("exists", "Sales Invoice", InvoiceName) =>
                i = 2 /\ ~Exists(db.pos_invoice, InvoiceName)
          /\ queries[i].doctype = "ZATCA Phase 1 Business Settings" =>
                \E j \in 1..(i - 1) : queries[j].op = "get_doc" /\ queries[j].doctype \in InvoiceDoctypes

InQr == fn = "get_zatca_phase_1_qr_for_invoice"

\* C9 as stated: the call returns None exactly in the three cases, and in every other
\* case it returns an image string.
C9_AsStated ==
    (InQr /\ pc \in {"done", "raised"}) =>
        /\ LookupOrder
        /\ IF NoQr THEN pc = "done" /\ ret = None
           ELSE pc = "done" /\ ret = QrImage(decoded_string)
                /\ B64Decode(decoded_string) = TLVRecords(FiveValues)

\* C9, amended: the call returns None, without raising, exactly when the invoice is
\* neither a POS Invoice nor a Sales Invoice, or its company has no Phase 1 settings, or
\* those are Disabled, with the lookups in that order. In every other case the five
\* values are encoded in the fixed order as tags 1 to 5; when each of them is at most 255
\* bytes long the call returns the image string of that payload unless the QR library
\* raises, and when one of them is longer the call raises ValueError. It never returns
\* None in these cases.
C9_NoQrExactly ==
    InQr =>
        /\ LookupOrder
        /\ NoQr => pc \in {"start", "done"}
        /\ pc = "done" => (ret = None <=> NoQr)
        /\ pc \notin {"start", "done"} => values = FiveValues
        /\ (pc = "done" /\ ~NoQr) =>
              /\ ret = QrImage(decoded_string)
              /\ B64Decode(decoded_string) = TLVRecords(FiveValues)
              /\ \A i \in 1..5 : ByteLen(FiveValues[i]) <= ByteMax
        /\ pc = "raised" =>
              /\ ret = ExcV("ValueError")
              /\ (\E i \in 1..5 : ByteLen(FiveValues[i]) > ByteMax) <=> RaisedInEncode
        /\ (pc = "render" \/ (pc = "raised" /\ ~RaisedInEncode)) =>
              B64Decode(decoded_string) = TLVRecords(FiveValues)

C9_Witness ==
    /\ InQr
    /\ pc = "done"
    /\ ~Exists(db.pos_invoice, InvoiceName)
    /\ Exists(db.sales_invoice, InvoiceName)
    /\ TheInvoice.company = TxtArabicMax
    /\ ret = QrImage(decoded_string)
    /\ Len(queries) = 5
    /\ SubSeq(B64Decode(decoded_string), 1, 2) = <<1, ByteMax>>

(***************************************************************************)
(* _get_seller_other_id and _get_buyer_other_id                            *)
(***************************************************************************)

CRN == <<67, 82, 78>>
MOM == <<77, 79, 77>>
MLS == <<77, 76, 83>>
C700 == <<55, 48, 48>>
SAG == <<83, 65, 71>>
OTH == <<79, 84, 72>>
TIN == <<84, 73, 78>>
NAT == <<78, 65, 84>>
GCC == <<71, 67, 67>>
IQA == <<73, 81, 65>>
PAS == <<80, 65, 83>>

seller_other_ids == <<CRN, MOM, MLS, C700, SAG, OTH>>
buyer_other_ids == <<TIN, CRN, MOM, MLS, C700, SAG, NAT, GCC, IQA, PAS, OTH>>

\* 'Commercial Registration Number'
DefaultLabel ==
    StrV(<<67, 111, 109, 109, 101, 114, 99, 105, 97, 108, 32, 82, 101, 103, 105, 115, 116, 114,
           97, 116, 105, 111, 110, 32, 78, 117, 109, 98, 101, 114>>)

TupleV(items) == [kind |-> "tuple", items |-> items]

\* bool(v) of None or a str
Truthy(v) == v.kind = "str" /\ v.s # <<>>

Whitespace == {9, 10, 11, 12, 13, 28, 29, 30, 31, 32}

\* s.strip()
Strip(s) ==
    LET keep == {i \in 1..Len(s) : s[i] \notin Whitespace}
    IN  IF keep = {} THEN <<>>
        ELSE SubSeq(s, CHOOSE i \in keep : \A j \in keep : i <= j,
                       CHOOSE i \in keep : \A j \in keep : i >= j)

\* v.strip() or None if isinstance(v, str) else v
StripOrNone(v) ==
    IF v.kind = "str"
    THEN (IF Strip(v.s) # <<>> THEN StrV(Strip(v.s)) ELSE None)
    ELSE v

\* frappe.get_value(doctype, {'parent': parent, 'type_code': type_code}, field): the field
\* of the matching row, None when there is no such row.
GetValue(table, parent, type_code, field) ==
    IF <<parent, type_code>> \in DOMAIN table THEN table[<<parent, type_code>>][field] ELSE None

QId(doctype, parent, type_code, field) ==
    Q("get_value", doctype, [parent |-> parent, type_code |-> type_code, field |-> field])

\* A plausible slip: the label is returned as found.
LabelOrDefault_asfound(name) == name

\* name or 'Commercial Registration Number'
LabelOrDefault(name) == IF Truthy(name) THEN name ELSE DefaultLabel

\* A plausible slip: the branch is consulted whether or not branch configuration is on.
UseBranch_always(sales_invoice, settings) == Truthy(sales_invoice.branch)

\* settings.enable_branch_configuration and sales_invoice.branch
UseBranch(sales_invoice, settings) ==
    settings.enable_branch_configuration /\ Truthy(sales_invoice.branch)

\* The loop of _get_seller_other_id from the i-th candidate on: the value and the name the
\* loop leaves in seller_other_id and seller_other_id_name, and the frappe calls made.
RECURSIVE seller_loop(_, _, _)
seller_loop(i, parent, q) ==
    LET other_id == seller_other_ids[i]
        seller_other_id ==
            StripOrNone(GetValue(db.additional_seller_ids, parent, other_id, "value"))
        q1 == q \o <<QId("Additional Seller IDs", parent, other_id, "value")>>
    IN  IF Truthy(seller_other_id) /\ seller_other_id # StrV(CRN)
        THEN [id |-> seller_other_id,
              name |-> GetValue(db.additional_seller_ids, parent, other_id, "type_name"),
              q |-> q1 \o <<QId("Additional Seller IDs", parent, other_id, "type_name")>>]
        ELSE IF i = Len(seller_other_ids)
             THEN [id |-> seller_other_id, name |-> None, q |-> q1]
             ELSE seller_loop(i + 1, parent, q1)

\* _get_seller_other_id(sales_invoice, settings)
_get_seller_other_id(sales_invoice, settings) ==
    LET branch ==
            IF UseBranch(sales_invoice, settings)
            THEN [id |-> GetValue(db.additional_seller_ids, sales_invoice.branch.s, CRN, "value"),
                  q |-> <<QId("Additional Seller IDs", sales_invoice.branch.s, CRN, "value")>>]
            ELSE [id |-> None, q |-> <<>>]
    IN  IF Truthy(branch.id)
        THEN [ret |-> TupleV(<<branch.id, LabelOrDefault(None)>>), q |-> branch.q]
        ELSE LET l == seller_loop(1, settings.name, branch.q)
             IN  [ret |-> TupleV(<<l.id, LabelOrDefault(l.name)>>), q |-> l.q]

\* The loop of _get_buyer_other_id from the i-th candidate on.
RECURSIVE buyer_loop(_, _, _)
buyer_loop(i, customer, q) ==
    LET other_id == buyer_other_ids[i]
        buyer_other_id ==
            StripOrNone(GetValue(db.additional_buyer_ids, customer, other_id, "value"))
        q1 == q \o <<QId("Additional Buyer IDs", customer, other_id, "value")>>
    IN  IF Truthy(buyer_other_id) /\ buyer_other_id # StrV(CRN)
        THEN [id |-> buyer_other_id,
              name |-> GetValue(db.additional_buyer_ids, customer, other_id, "type_name"),
              q |-> q1 \o <<QId("Additional Buyer IDs", customer, other_id, "type_name")>>]
        ELSE IF i = Len(buyer_other_ids)
             THEN [id |-> buyer_other_id, name |-> None, q |-> q1]
             ELSE buyer_loop(i + 1, customer, q1)

\* _get_buyer_other_id(customer)
_get_buyer_other_id(customer) ==
    LET l == buyer_loop(1, customer, <<>>)
    IN  [ret |-> TupleV(<<l.id, LabelOrDefault(l.name)>>), q |-> l.q]

\* A call of _get_seller_other_id.
GetSellerOtherId ==
    /\ fn = "_get_seller_other_id"
    /\ pc = "start"
    /\ LET r == _get_seller_other_id(args.sales_invoice, args.settings)
       IN  ret' = r.ret /\ queries' = queries \o r.q
    /\ pc' = "done"
    /\ UNCHANGED <<fn, db, args, values, tag, encoded_text, decoded_string>>

\* A call of _get_buyer_other_id.
GetBuyerOtherId ==
    /\ fn = "_get_buyer_other_id"
    /\ pc = "start"
    /\ LET r == _get_buyer_other_id(args.customer)
       IN  ret' = r.ret /\ queries' = queries \o r.q
    /\ pc' = "done"
    /\ UNCHANGED <<fn, db, args, values, tag, encoded_text, decoded_string>>

(***************************************************************************)
(* The calls checked for the other ids                                     *)
(***************************************************************************)

\* The most identifier rows the document store holds in a checked call.
MaxRows == 2

SettingsName == <<90, 49>>      \* "Z1"
BranchName == <<66, 49>>        \* "B1"
CustomerName == <<67, 49>>      \* "C1"

\* "", " ", "999", " 123 ", "CRN"
StoredValues ==
    {StrV(<<>>), StrV(<<32>>), StrV(<<57, 57, 57>>), StrV(<<32, 49, 50, 51, 32>>), StrV(CRN)}

\* The label stored with the rows of a type code, "<code> name".
StoredLabel(type_code) == StrV(type_code \o <<32, 110, 97, 109, 101>>)

\* The rows of one type code: every stored value, with the stored label or with none.
IdRows(type_code) ==
    {[value |-> v, type_name |-> n] : v \in StoredValues, n \in {None, StoredLabel(type_code)}}

Range(f) == {f[i] : i \in DOMAIN f}

SellerSlots == {<<SettingsName, c>> : c \in Range(seller_other_ids)} \cup {<<BranchName, CRN>>}
BuyerSlots == {<<CustomerName, c>> : c \in Range(buyer_other_ids)}

\* The tables of at most MaxRows rows over the slots (parent, type code).
IdTables(slots) ==
    UNION {{t \in [S -> UNION {IdRows(k[2]) : k \in S}] : \A k \in S : t[k] \in IdRows(k[2])} :
            S \in {T \in SUBSET slots : Cardinality(T) <= MaxRows}}

InitOther ==
    /\ \/ /\ fn = "_get_seller_other_id"
          /\ \E t \in IdTables(SellerSlots) :
                db = [additional_seller_ids |-> t, additional_buyer_ids |-> NoDocs]
          /\ \E e \in BOOLEAN, b \in {None, StrV(BranchName)} :
                args = [sales_invoice |-> [branch |-> b],
                        settings |-> [name |-> SettingsName, enable_branch_configuration |-> e]]
       \/ /\ fn = "_get_buyer_other_id"
          /\ \E t \in IdTables(BuyerSlots) :
                db = [additional_seller_ids |-> NoDocs, additional_buyer_ids |-> t]
          /\ args = [customer |-> CustomerName]
    /\ pc = "start"
    /\ ret = None
    /\ queries = <<>>
    /\ values = <<>>
    /\ tag = 0
    /\ encoded_text = <<>>
    /\ decoded_string = <<>>

NextOther ==
    \/ GetSellerOtherId
    \/ GetBuyerOtherId

SpecOther == InitOther /\ [][NextOther]_vars

(***************************************************************************)
(* Properties of the other ids                                             *)
(***************************************************************************)

InSeller == fn = "_get_seller_other_id"
InBuyer == fn = "_get_buyer_other_id"

\* The stored value of a candidate after trimming (empty when there is none), whether it
\* has one, and its stored label.
Trimmed(table, parent, type_code) ==
    LET v == GetValue(table, parent, type_code, "value")
    IN  IF v.kind = "str" THEN Strip(v.s) ELSE <<>>
HasValue(table, parent, type_code) == Trimmed(table, parent, type_code) # <<>>
StoredName(table, parent, type_code) == GetValue(table, parent, type_code, "type_name")

SellerHas(type_code) == HasValue(db.additional_seller_ids, SettingsName, type_code)
SellerValue(type_code) == StrV(Trimmed(db.additional_seller_ids, SettingsName, type_code))
SellerName(type_code) == StoredName(db.additional_seller_ids, SettingsName, type_code)
BuyerHas(type_code) == HasValue(db.additional_buyer_ids, CustomerName, type_code)
BuyerValue(type_code) == StrV(Trimmed(db.additional_buyer_ids, CustomerName, type_code))
BuyerName(type_code) == StoredName(db.additional_buyer_ids, CustomerName, type_code)

\* Branch configuration is enabled and the invoice has a branch.
BranchConsulted == args.settings.enable_branch_configuration /\ args.sales_invoice.branch # None
BranchValue == GetValue(db.additional_seller_ids, BranchName, CRN, "value")
\* ... and that branch has a non-empty CRN.
BranchApplies == BranchConsulted /\ Truthy(BranchValue)

SettingsQueries == {i \in 1..Len(queries) : queries[i].key.parent = SettingsName}
BranchQueries == {i \in 1..Len(queries) : queries[i].key.parent = BranchName}

\* The positions in the seller's priority list: CRN is the first.
SellerPositions == 1..Len(seller_other_ids)
NonCrnWithValue == {i \in SellerPositions : seller_other_ids[i] # CRN /\ SellerHas(seller_other_ids[i])}
First(S) == CHOOSE i \in S : \A j \in S : i <= j

\* C3: when the only settings-level identifier with a value is the CRN one, and no branch
\* CRN applies, the result is that value with the default label, whatever label is stored
\* with the CRN row.
C3_AsStated ==
    (InSeller /\ pc = "done" /\ ~BranchApplies /\ SellerHas(CRN) /\ NonCrnWithValue = {}) =>
        ret = TupleV(<<SellerValue(CRN), DefaultLabel>>)

\* C4: with no branch short-circuit, the result is the first candidate in the order CRN,
\* MOM, MLS, 700, SAG, OTH that has a value after trimming and whose type code is not
\* CRN, with its own stored label (the default when it stores none), and no candidate
\* after it is consulted.
C4_AsStated ==
    (InSeller /\ pc = "done" /\ ~BranchApplies /\ NonCrnWithValue # {}) =>
        LET c == seller_other_ids[First(NonCrnWithValue)]
        IN  /\ ret = TupleV(<<SellerValue(c), IF Truthy(SellerName(c)) THEN SellerName(c) ELSE DefaultLabel>>)
            /\ \A i \in SettingsQueries :
                  \E j \in 1..First(NonCrnWithValue) : queries[i].key.type_code = seller_other_ids[j]

\* What the settings-level rows alone give: the first candidate whose trimmed value is
\* not empty and not the text "CRN", with its stored label; else the value the last
\* candidate leaves, with the default label.
SellerPicks == {i \in SellerPositions : SellerHas(seller_other_ids[i]) /\ SellerValue(seller_other_ids[i]) # StrV(CRN)}
SettingsLevelResult ==
    IF SellerPicks # {}
    THEN LET c == seller_other_ids[First(SellerPicks)]
         IN  TupleV(<<SellerValue(c), IF Truthy(SellerName(c)) THEN SellerName(c) ELSE DefaultLabel>>)
    ELSE TupleV(<<IF SellerHas(OTH) THEN SellerValue(OTH) ELSE None, DefaultLabel>>)

\* C5: when branch configuration is enabled, the invoice has a branch and that branch has
\* a non-empty CRN, the result is that value with the default label whatever the
\* settings-level rows are, and no settings-level row is looked up; when branch
\* configuration is disabled or the invoice has no branch, the branch row is not looked
\* up and the result is what the settings-level rows alone give.
C5_BranchShortCircuit ==
    (InSeller /\ pc = "done") =>
        /\ BranchApplies =>
              /\ ret = TupleV(<<BranchValue, DefaultLabel>>)
              /\ SettingsQueries = {}
              /\ queries = <<QId("Additional Seller IDs", BranchName, CRN, "value")>>
        /\ ~BranchConsulted =>
              /\ BranchQueries = {}
              /\ ret = SettingsLevelResult

C5_Witness ==
    /\ InSeller
    /\ pc = "done"
    /\ BranchApplies
    /\ SellerHas(MOM)
    /\ BranchValue = StrV(<<57, 57, 57>>)
    /\ SellerValue(MOM) = StrV(<<49, 50, 51>>)
    /\ ret = TupleV(<<BranchValue, DefaultLabel>>)
    /\ Len(queries) = 1

DictV(d) == [kind |-> "dict", d |-> d]

\* A version of erpnext: major.minor.patch, with or without a prerelease part ("-dev").
Ver(major, minor, patch, pre) == [major |-> major, minor |-> minor, patch |-> patch, pre |-> pre]

\* The version the per-line tax records exist from: Version('16.0.0').
PerLineMajor == 16

\* Version(v) >= Version(w): by major, minor, patch; a prerelease is below its release.
VersionGE(v, w) ==
    IF v.major # w.major THEN v.major > w.major
    ELSE IF v.minor # w.minor THEN v.minor > w.minor
    ELSE IF v.patch # w.patch THEN v.patch > w.patch
    ELSE (~v.pre) \/ w.pre

\* The loop of _find_first_or_default from the i-th item on; the predicate is a function
\* on the items.
RECURSIVE find_first_from(_, _, _, _)
find_first_from(items, predicate, default, i) ==
    IF i > Len(items) THEN default
    ELSE IF predicate[items[i]] THEN items[i]
    ELSE find_first_from(items, predicate, default, i + 1)

\* _find_first_or_default(items, predicate, default)
_find_first_or_default(items, predicate, default) == find_first_from(items, predicate, default, 1)

\* A plausible slip: the last line of the item code is taken.
find_row_last(items, item_code) ==
    LET m == {i \in 1..Len(items) : items[i].item_code = item_code}
    IN  IF m = {} THEN None ELSE items[CHOOSE i \in m : \A j \in m : i >= j]

\* row = _find_first_or_default(invoice.items, lambda item: item.item_code == item_code)
find_row(items, item_code) ==
    _find_first_or_default(items,
                           [item \in {items[i] : i \in 1..Len(items)} |-> item.item_code = item_code],
                           None)

TaxRow(rate, amount) == [rate |-> rate, amount |-> amount]

\* The loop over details.items() from its i-th entry on; an entry is <<item_code, values>>.
RECURSIVE legacy_loop(_, _, _, _)
legacy_loop(items, details, i, result) ==
    IF i > Len(details) THEN result
    ELSE LET item_code == details[i][1]
             vals == details[i][2]
             row == find_row(items, item_code)
         IN  legacy_loop(items, details, i + 1,
                         IF row # None
                         THEN (row.name :> TaxRow(vals[1], vals[2])) @@ result
                         ELSE result)

\* The dict {r['item_row']: {...} for r in records}: a later record of a row replaces an
\* earlier one.
RowsDict(records) ==
    [k \in {records[i].item_row : i \in 1..Len(records)} |->
        LET last == CHOOSE i \in 1..Len(records) :
                        /\ records[i].item_row = k
                        /\ \A j \in 1..Len(records) : records[j].item_row = k => j <= i
        IN  TaxRow(records[last].rate, records[last].amount)]

\* frappe.get_all('Item Wise Tax Detail', filters={parenttype, parent}): the records of
\* the invoice, in stored order.
RECURSIVE SelectOf(_, _, _)
SelectOf(table, doctype, name) ==
    IF table = <<>> THEN <<>>
    ELSE (IF table[1].parenttype = doctype /\ table[1].parent = name THEN <<table[1]>> ELSE <<>>)
            \o SelectOf(Tail(table), doctype, name)

\* get_item_wise_tax_details(invoice): the dict returned, or the exception raised
\* (the one frappe call it makes is logged by the action).
\* json.loads(None) raises TypeError, json.loads of malformed text JSONDecodeError.
get_item_wise_tax_details(invoice) ==
    IF VersionGE(db.erpnext_version, Ver(PerLineMajor, 0, 0, FALSE))
    THEN DictV(RowsDict(SelectOf(db.item_wise_tax_detail, invoice.doctype, invoice.name)))
    ELSE LET text == db.item_wise_tax_detail_json
         IN  IF text = None THEN ExcV("TypeError")
             ELSE IF ~text.wellformed THEN ExcV("JSONDecodeError")
             ELSE DictV(legacy_loop(invoice.items, text.details, 1,
                                    [n \in {invoice.items[i].name : i \in 1..Len(invoice.items)} |->
                                        TaxRow(0, 0)]))

\* A call of get_item_wise_tax_details.
GetItemWiseTaxDetails ==
    /\ fn = "get_item_wise_tax_details"
    /\ pc = "start"
    /\ LET r == get_item_wise_tax_details(args.invoice)
       IN  /\ ret' = r
           /\ pc' = IF r.kind = "exception" THEN "raised" ELSE "done"
    /\ queries' = queries \o
          <<IF VersionGE(db.erpnext_version, Ver(PerLineMajor, 0, 0, FALSE))
            THEN Q("get_all", "Item Wise Tax Detail", args.invoice.name)
            ELSE Q("get_value", "Sales Taxes and Charges", args.invoice.name)>>
    /\ UNCHANGED <<fn, db, args, values, tag, encoded_text, decoded_string>>

(***************************************************************************)
(* The calls checked for the tax details                                   *)
(***************************************************************************)

\* The most lines an invoice has, and the most per-line tax records stored, in a checked call.
MaxLines == 2

\* "row1", "row2", ...: the name of the i-th line.
RowName(i) == <<114, 111, 119, 48 + i>>

ItemCodes == {"A", "B"}
TaxValues == {<<15, 100>>, <<5, 30>>}

Invoices ==
    {[doctype |-> "Sales Invoice", name |-> InvoiceName,
      items |-> [i \in 1..n |-> [name |-> RowName(i), item_code |-> codes[i]]]] :
        n \in 0..MaxLines, codes \in [1..MaxLines -> ItemCodes]}

\* The legacy text: None, malformed, or the JSON of a dict item code -> [rate, amount],
\* given as its entries in order.
LegacyCodes == <<"A", "B", "C">>
RECURSIVE EntriesOf(_, _)
EntriesOf(f, i) ==
    IF i > Len(LegacyCodes) THEN <<>>
    ELSE (IF LegacyCodes[i] \in DOMAIN f THEN <<<<LegacyCodes[i], f[LegacyCodes[i]]>>>> ELSE <<>>)
            \o EntriesOf(f, i + 1)
LegacyTexts ==
    {None, [kind |-> "str", wellformed |-> FALSE, details |-> <<>>]} \cup
    {[kind |-> "str", wellformed |-> TRUE, details |-> EntriesOf(f, 1)] :
        f \in UNION {[S -> TaxValues] : S \in SUBSET Range(LegacyCodes)}}

TaxRecords ==
    {[parenttype |-> "Sales Invoice", parent |-> par, item_row |-> RowName(i), rate |-> v[1], amount |-> v[2]] :
        par \in {InvoiceName}, i \in 1..MaxLines, v \in TaxValues}
    \cup {[parenttype |-> "Sales Invoice", parent |-> "INV-2", item_row |-> RowName(1), rate |-> 15, amount |-> 100]}
TaxTables == UNION {[1..n -> TaxRecords] : n \in 0..MaxLines}

LegacyVersions == {Ver(15, 61, 2, FALSE), Ver(16, 0, 0, TRUE)}
PerLineVersions == {Ver(16, 0, 0, FALSE), Ver(16, 2, 1, FALSE)}

\* The per-line tax records of an invoice are records of its lines.
RecordsOfLines(table, inv) ==
    \A i \in 1..Len(table) :
        table[i].parent = inv.name => \E j \in 1..Len(inv.items) : inv.items[j].name = table[i].item_row

InitTax ==
    /\ fn = "get_item_wise_tax_details"
    /\ \E inv \in Invoices : args = [invoice |-> inv]
    /\ \/ \E v \in LegacyVersions, t \in LegacyTexts, r \in {<<>>} \cup {<<x>> : x \in TaxRecords} :
             db = [erpnext_version |-> v, item_wise_tax_detail_json |-> t, item_wise_tax_detail |-> r]
       \/ \E v \in PerLineVersions, t \in {None, [kind |-> "str", wellformed |-> TRUE, details |-> <<<<"A", <<15, 100>>>>>>]},
             r \in TaxTables :
             db = [erpnext_version |-> v, item_wise_tax_detail_json |-> t, item_wise_tax_detail |-> r]
    /\ RecordsOfLines(db.item_wise_tax_detail, args.invoice)
    /\ pc = "start"
    /\ ret = None
    /\ queries = <<>>
    /\ values = <<>>
    /\ tag = 0
    /\ encoded_text = <<>>
    /\ decoded_string = <<>>

NextTax == GetItemWiseTaxDetails

SpecTax == InitTax /\ [][NextTax]_vars

(***************************************************************************)
(* Properties of the tax details                                           *)
(***************************************************************************)

InTax == fn = "get_item_wise_tax_details"
Lines == args.invoice.items
LineNames == {Lines[i].name : i \in 1..Len(Lines)}
OnPerLinePath == VersionGE(db.erpnext_version, Ver(PerLineMajor, 0, 0, FALSE))
RecordedRows ==
    {db.item_wise_tax_detail[i].item_row :
        i \in {j \in 1..Len(db.item_wise_tax_detail) : db.item_wise_tax_detail[j].parent = InvoiceName}}

\* C7: on both paths the mapping returned has exactly one entry per invoice line: its
\* keys are the names of the invoice's lines, and a line with no tax record has the zero row.
C7_AsStated ==
    (InTax /\ pc = "done") =>
        /\ DOMAIN ret.d = LineNames
        /\ OnPerLinePath =>
              \A n \in LineNames \ RecordedRows : ret.d[n] = TaxRow(0, 0)

\* The legacy entry of an item code, when there is one.
LegacyDetails == db.item_wise_tax_detail_json.details
HasEntry(code) == \E e \in 1..Len(LegacyDetails) : LegacyDetails[e][1] = code
EntryOf(code) == LegacyDetails[CHOOSE e \in 1..Len(LegacyDetails) : LegacyDetails[e][1] = code][2]
IsFirstOfItsCode(i) == \A j \in 1..(i - 1) : Lines[j].item_code # Lines[i].item_code

\* C8: on the legacy path every line has a row; the first line of an item code that has a
\* legacy entry [rate, amount] has {rate, amount}, and every other line (a later line of
\* the same item code, a line whose item code has no entry) has {0.0, 0.0}; an entry whose
\* item code is on no line changes nothing.
C8_LegacyFirstMatch ==
    (InTax /\ pc = "done" /\ ~OnPerLinePath) =>
        /\ DOMAIN ret.d = LineNames
        /\ \A i \in 1..Len(Lines) :
              ret.d[Lines[i].name] =
                  IF HasEntry(Lines[i].item_code) /\ IsFirstOfItsCode(i)
                  THEN TaxRow(EntryOf(Lines[i].item_code)[1], EntryOf(Lines[i].item_code)[2])
                  ELSE TaxRow(0, 0)

C8_Witness ==
    /\ InTax
    /\ pc = "done"
    /\ ~OnPerLinePath
    /\ LegacyDetails = <<<<"A", <<15, 100>>>>>>
    /\ Len(Lines) = 2
    /\ Lines[1].item_code = "A"
    /\ Lines[2].item_code = "A"
    /\ ret.d = (RowName(1) :> TaxRow(15, 100)) @@ (RowName(2) :> TaxRow(0, 0))

(***************************************************************************)
(* get_phase_2_print_format_details                                        *)
(***************************************************************************)

\* A plausible slip: one field is always read from the settings.
PrintAddress_mixed(branch_doc, has_branch_address, settings) ==
    [street |-> IF has_branch_address THEN branch_doc.custom_street ELSE settings.street,
     district |-> IF has_branch_address THEN branch_doc.custom_district ELSE settings.district,
     city |-> settings.city,
     postal_code |-> IF has_branch_address THEN branch_doc.custom_postal_code ELSE settings.postal_code]

\* The 'address' entry of the dict returned.
PrintAddress(branch_doc, has_branch_address, settings) ==
    [street |-> IF has_branch_address THEN branch_doc.custom_street ELSE settings.street,
     district |-> IF has_branch_address THEN branch_doc.custom_district ELSE settings.district,
     city |-> IF has_branch_address THEN branch_doc.custom_city ELSE settings.city,
     postal_code |-> IF has_branch_address THEN branch_doc.custom_postal_code ELSE settings.postal_code]

\* frappe.db.exists('ZATCA Business Settings', {'company': company, 'enable_zatca_integration': True}):
\* the name of such a document, None when there is none.
EnabledSettings(company) ==
    {n \in DOMAIN db.zatca_business_settings :
        /\ db.zatca_business_settings[n].company = company
        /\ db.zatca_business_settings[n].enable_zatca_integration}

\* get_phase_2_print_format_details(sales_invoice): None, the dict, or the exception
\* raised; q is the frappe calls made. frappe.get_last_doc raises DoesNotExistError when
\* no document matches.
get_phase_2_print_format_details(sales_invoice) ==
    LET q1 == <<Q("exists", "ZATCA Business Settings", sales_invoice.company)>>
    IN  IF EnabledSettings(sales_invoice.company) = {} THEN [ret |-> None, q |-> q1]
        ELSE
        LET settings_id == CHOOSE n \in EnabledSettings(sales_invoice.company) : TRUE
            settings == db.zatca_business_settings[settings_id]
            q2 == q1 \o <<Q("get_doc", "ZATCA Business Settings", settings_id)>>
            load_branch == settings.enable_branch_configuration /\ Truthy(sales_invoice.branch)
            branch_doc == IF load_branch THEN db.branch[sales_invoice.branch.s] ELSE None
            q3 == IF load_branch THEN q2 \o <<Q("get_doc", "Branch", sales_invoice.branch.s)>> ELSE q2
            has_branch_address == load_branch /\ Truthy(branch_doc.custom_company_address)
            seller == _get_seller_other_id(sales_invoice, settings)
            buyer == _get_buyer_other_id(sales_invoice.customer)
            q4 == q3 \o seller.q \o buyer.q
                     \o <<Q("get_last_doc", "Sales Invoice Additional Fields", sales_invoice.name)>>
        IN  IF db.sales_invoice_additional_fields = None
            THEN [ret |-> ExcV("DoesNotExistError"), q |-> q4]
            ELSE [ret |-> DictV([settings |-> settings,
                                 address |-> PrintAddress(branch_doc, has_branch_address, settings),
                                 seller_other_id |-> seller.ret.items[1],
                                 seller_other_id_name |-> seller.ret.items[2],
                                 buyer_other_id |-> buyer.ret.items[1],
                                 buyer_other_id_name |-> buyer.ret.items[2],
                                 siaf |-> db.sales_invoice_additional_fields]),
                  q |-> q4]

\* A call of get_phase_2_print_format_details.
GetPhase2PrintFormatDetails ==
    /\ fn = "get_phase_2_print_format_details"
    /\ pc = "start"
    /\ LET r == get_phase_2_print_format_details(args.sales_invoice)
       IN  /\ ret' = r.ret
           /\ queries' = queries \o r.q
           /\ pc' = IF r.ret.kind = "exception" THEN "raised" ELSE "done"
    /\ UNCHANGED <<fn, db, args, values, tag, encoded_text, decoded_string>>

(***************************************************************************)
(* The calls checked for the print format details                          *)
(***************************************************************************)

SettingsAddress == [street |-> "S street", district |-> "S district", city |-> "S city", postal_code |-> "S code"]
BranchAddress == [street |-> "B street", district |-> "B district", city |-> "B city", postal_code |-> "B code"]

SettingsDoc(company, integration, branch_configuration) ==
    [name |-> SettingsName, company |-> company, enable_zatca_integration |-> integration,
     enable_branch_configuration |-> branch_configuration,
     street |-> SettingsAddress.street, district |-> SettingsAddress.district,
     city |-> SettingsAddress.city, postal_code |-> SettingsAddress.postal_code]

BranchDoc(address) ==
    [custom_company_address |-> address,
     custom_street |-> BranchAddress.street, custom_district |-> BranchAddress.district,
     custom_city |-> BranchAddress.city, custom_postal_code |-> BranchAddress.postal_code]

PrintSettingsTables ==
    {NoDocs} \cup
    {OneDoc(SettingsName, SettingsDoc(c, i, b)) : c \in {TxtCo, TxtArabic}, i \in BOOLEAN, b \in BOOLEAN}

PrintBranchTables == {OneDoc(BranchName, BranchDoc(a)) : a \in {None, StrV(<<>>), StrV(<<65, 49>>)}}

Row(value, type_name) == [value |-> value, type_name |-> type_name]

PrintSellerTables ==
    {NoDocs,
     OneDoc(<<BranchName, CRN>>, Row(StrV(<<57, 57, 57>>), None)),
     OneDoc(<<SettingsName, MOM>>, Row(StrV(<<32, 49, 50, 51, 32>>), StoredLabel(MOM))),
     OneDoc(<<BranchName, CRN>>, Row(StrV(<<57, 57, 57>>), None))
        @@ OneDoc(<<SettingsName, MOM>>, Row(StrV(<<32, 49, 50, 51, 32>>), StoredLabel(MOM)))}

PrintBuyerTables == {NoDocs, OneDoc(<<CustomerName, TIN>>, Row(StrV(<<57, 57, 57>>), StoredLabel(TIN)))}

InitPrint ==
    /\ fn = "get_phase_2_print_format_details"
    /\ \E b \in {None, StrV(BranchName)} :
          args = [sales_invoice |-> [name |-> InvoiceName, company |-> TxtCo, branch |-> b,
                                     customer |-> CustomerName]]
    /\ \E st \in PrintSettingsTables, bt \in PrintBranchTables, sl \in PrintSellerTables,
          by \in PrintBuyerTables, siaf \in {None, [sales_invoice |-> InvoiceName]} :
          db = [zatca_business_settings |-> st, branch |-> bt, additional_seller_ids |-> sl,
                additional_buyer_ids |-> by, sales_invoice_additional_fields |-> siaf]
    /\ pc = "start"
    /\ ret = None
    /\ queries = <<>>
    /\ values = <<>>
    /\ tag = 0
    /\ encoded_text = <<>>
    /\ decoded_string = <<>>

NextPrint == GetPhase2PrintFormatDetails

SpecPrint == InitPrint /\ [][NextPrint]_vars

(***************************************************************************)
(* Properties of the print format details                                  *)
(***************************************************************************)

InPrint == fn = "get_phase_2_print_format_details"
PrintSettings == {n \in DOMAIN db.zatca_business_settings :
                    /\ db.zatca_business_settings[n].company = args.sales_invoice.company
                    /\ db.zatca_business_settings[n].enable_zatca_integration}
BranchHasAddress ==
    /\ db.zatca_business_settings[SettingsName].enable_branch_configuration
    /\ args.sales_invoice.branch # None
    /\ db.branch[args.sales_invoice.branch.s].custom_company_address \notin {None, StrV(<<>>)}

\* C10: in every result that is not None the four address fields come from one source:
\* all from the invoice's branch when branch configuration is enabled, the invoice has a
\* branch and the branch has an address configured, all from the settings otherwise;
\* and None is returned only when the company has no enabled ZATCA settings.
C10_AddressWholesale ==
    InPrint =>
        /\ (pc = "done" /\ ret = None) => PrintSettings = {}
        /\ PrintSettings = {} => pc \in {"start", "done"} /\ ret = None
        /\ (pc = "done" /\ ret # None) =>
              /\ ret.d.address \in {BranchAddress, SettingsAddress}
              /\ ret.d.address = IF BranchHasAddress THEN BranchAddress ELSE SettingsAddress

C10_Witness ==
    /\ InPrint
    /\ pc = "done"
    /\ ret # None
    /\ BranchHasAddress
    /\ ret.d.address = BranchAddress
    /\ ret.d.seller_other_id = StrV(<<57, 57, 57>>)

====
